---------------------------- MODULE Spec2Model ----------------------------
(***************************************************************************)
(* Model of the photo-booth front end: the device classifier and its       *)
(* debounced resize handling (src/src/hooks/useDeviceDetection.js), the    *)
(* responsive fit calculator (useResponsiveImageSize, src/unnamed/part_003)*)
(* and the PhotoPage capture flow with its canvas compositor (lines        *)
(* 286-605 of src/src/components/ResultPage.jsx).                          *)
(*                                                                         *)
(* JavaScript numbers are modelled as exact rationals [n, d] in lowest     *)
(* terms; CSS length strings are modelled as sequences of one-character    *)
(* strings so that parsing and formatting are computed, not assumed.       *)
(***************************************************************************)
EXTENDS Integers, Sequences, FiniteSets, TLC

(***************************************************************************)
(* Bounds of the model (not program constants).                            *)
(***************************************************************************)
MaxDimK == 6

MaxViewK == 4

MaxClassifyWidth == 1400

MaxCalls == 2

MaxClock == 30000

TickMs == 5000

MaxDevClock == 1000

DevTickMs == 125

MaxBurst == 3

MaxLitK == 12

MaxSideK == 8

MaxImages == 3

(***************************************************************************)
(* Numbers: exact rationals.                                               *)
(***************************************************************************)
\* null, and NaN as the quotient 0/0; both are records so that they compare
\* with numbers and objects
Null == [isNull |-> TRUE]

NaN == [n |-> 0, d |-> 0]

Abs(x) == IF x < 0 THEN -x ELSE x

RECURSIVE Gcd(_, _)
Gcd(a, b) == IF b = 0 THEN a ELSE Gcd(b, a % b)

Rat(n, d) ==
  LET g == Gcd(Abs(n), Abs(d))
      s == IF d < 0 THEN -1 ELSE 1
  IN  [n |-> (s * n) \div g, d |-> (s * d) \div g]

Num(k) == [n |-> k, d |-> 1]

RAdd(x, y) == Rat(x.n * y.d + y.n * x.d, x.d * y.d)

RSub(x, y) == Rat(x.n * y.d - y.n * x.d, x.d * y.d)

RMul(x, y) == Rat(x.n * y.n, x.d * y.d)

RDiv(x, y) == Rat(x.n * y.d, x.d * y.n)

RLe(x, y) == x.n * y.d <= y.n * x.d

RLt(x, y) == x.n * y.d < y.n * x.d

RGe(x, y) == RLe(y, x)

RGt(x, y) == RLt(y, x)

RMin(x, y) == IF RLe(x, y) THEN x ELSE y

RMax(x, y) == IF RGe(x, y) THEN x ELSE y

\* Math.round: the nearest integer, halves rounded up
MathRound(x) == (2 * x.n + x.d) \div (2 * x.d)

(***************************************************************************)
(* Strings: sequences of characters.                                       *)
(***************************************************************************)
Digits == <<"0", "1", "2", "3", "4", "5", "6", "7", "8", "9">>

IsDigit(c) == \E i \in 1..10 : Digits[i] = c

DigitVal(c) == (CHOOSE i \in 1..10 : Digits[i] = c) - 1

RECURSIVE NatToStr(_)
NatToStr(k) ==
  IF k < 10 THEN <<Digits[k + 1]>>
  ELSE NatToStr(k \div 10) \o <<Digits[(k % 10) + 1]>>

\* String(k) for an integer k, as the template literal `${k}` formats it
IntToStr(k) == IF k < 0 THEN <<"-">> \o NatToStr(-k) ELSE NatToStr(k)

endsWith(s, suffix) ==
  /\ Len(s) >= Len(suffix)
  /\ SubSeq(s, Len(s) - Len(suffix) + 1, Len(s)) = suffix

RECURSIVE DigitRun(_, _)
\* number of consecutive digits of s starting at position i
DigitRun(s, i) ==
  IF i <= Len(s) /\ IsDigit(s[i]) THEN 1 + DigitRun(s, i + 1) ELSE 0

RECURSIVE DigitsVal(_, _, _)
\* value of the k digits of s that start at position i
DigitsVal(s, i, k) ==
  IF k = 0 THEN 0
  ELSE 10 * DigitsVal(s, i, k - 1) + DigitVal(s[i + k - 1])

RECURSIVE Pow10(_)
Pow10(k) == IF k = 0 THEN 1 ELSE 10 * Pow10(k - 1)

\* parseFloat: the longest prefix [+-]digits[.digits]; NaN when it has no digit
parseFloat(s) ==
  LET neg   == Len(s) >= 1 /\ s[1] = "-"
      i0    == IF Len(s) >= 1 /\ s[1] \in {"-", "+"} THEN 2 ELSE 1
      ni    == DigitRun(s, i0)
      dot   == i0 + ni <= Len(s) /\ s[i0 + ni] = "."
      nf    == IF dot THEN DigitRun(s, i0 + ni + 1) ELSE 0
      ipart == DigitsVal(s, i0, ni)
      fpart == DigitsVal(s, i0 + ni + 1, nf)
      mag   == Rat(ipart * Pow10(nf) + fpart, Pow10(nf))
  IN  IF ni = 0 /\ nf = 0 THEN NaN
      ELSE IF neg THEN Rat(-mag.n, mag.d) ELSE mag

\* parseInt: the longest prefix [+-]digits; NaN when it has no digit
parseInt(s) ==
  LET neg == Len(s) >= 1 /\ s[1] = "-"
      i0  == IF Len(s) >= 1 /\ s[1] \in {"-", "+"} THEN 2 ELSE 1
      ni  == DigitRun(s, i0)
  IN  IF ni = 0 THEN NaN
      ELSE IF neg THEN -DigitsVal(s, i0, ni) ELSE DigitsVal(s, i0, ni)

\* JavaScript values with their typeof tag
JsNum(r) == [t |-> "number", v |-> r]

JsStr(s) == [t |-> "string", v |-> s]

JsNull == [t |-> "object", v |-> Null]

Px(k) == JsStr(IntToStr(k) \o <<"p", "x">>)

Vw(k) == JsStr(IntToStr(k) \o <<"v", "w">>)

Vh(k) == JsStr(IntToStr(k) \o <<"v", "h">>)

Auto == JsStr(<<"a", "u", "t", "o">>)

(***************************************************************************)
(* hooks/useDeviceDetection.js: device classes and layout constraints.     *)
(***************************************************************************)
DEVICE_TYPES == [MOBILE |-> "mobile", TABLET |-> "tablet", DESKTOP |-> "desktop"]

Infinity == [n |-> 1, d |-> 0]

LAYOUT_CONSTRAINTS ==
  [mobile  |-> [maxWidth |-> Vw(95), maxHeight |-> Vh(70), minWidth |-> Px(280),
                bottomSpacing |-> Px(120),
                breakpoint |-> [min |-> Num(0), max |-> Num(768)]],
   tablet  |-> [maxWidth |-> Vw(75), maxHeight |-> Vh(85), minWidth |-> Px(400),
                bottomSpacing |-> Px(120),
                breakpoint |-> [min |-> Num(768), max |-> Num(1366)]],
   desktop |-> [maxWidth |-> Vw(80), maxHeight |-> Vh(80), minWidth |-> Px(500),
                bottomSpacing |-> Px(160),
                breakpoint |-> [min |-> Num(1367), max |-> Infinity]]]

\* mutant: the mobile breakpoint excludes 768
getDeviceType_StrictMobile(width, height) ==
  IF width < 768 THEN DEVICE_TYPES.MOBILE
  ELSE IF width <= 1366 THEN DEVICE_TYPES.TABLET
  ELSE DEVICE_TYPES.DESKTOP

getDeviceType(width, height) ==
  IF width <= 768 THEN DEVICE_TYPES.MOBILE
  ELSE IF width <= 1366 THEN DEVICE_TYPES.TABLET
  ELSE DEVICE_TYPES.DESKTOP

getLayoutConstraints(deviceType) ==
  IF deviceType \in DOMAIN LAYOUT_CONSTRAINTS
  THEN LAYOUT_CONSTRAINTS[deviceType]
  ELSE LAYOUT_CONSTRAINTS[DEVICE_TYPES.DESKTOP]

(***************************************************************************)
(* useResponsiveImageSize (part_003): unit conversion and the fit.          *)
(***************************************************************************)
TypeError == [thrown |-> "TypeError"]

\* parseFloat(value) || 0
OrZero(x) == IF x = NaN THEN Num(0) ELSE x

\* mutant: vw is taken of the viewport height
convertToPixels_VwOfHeight(value, viewport) ==
  IF value.t = "number" THEN value.v
  ELSE IF value.t # "string" THEN TypeError
  ELSE IF endsWith(value.v, <<"p", "x">>) THEN parseFloat(value.v)
  ELSE IF endsWith(value.v, <<"v", "w">>)
       THEN LET f == parseFloat(value.v)
            IN  IF f = NaN THEN NaN
                ELSE RMul(RDiv(f, Num(100)), Num(viewport.height))
  ELSE IF endsWith(value.v, <<"v", "h">>)
       THEN LET f == parseFloat(value.v)
            IN  IF f = NaN THEN NaN
                ELSE RMul(RDiv(f, Num(100)), Num(viewport.height))
  ELSE OrZero(parseFloat(value.v))

convertToPixels(value, viewport) ==
  IF value.t = "number" THEN value.v
  ELSE IF value.t # "string" THEN TypeError
  ELSE IF endsWith(value.v, <<"p", "x">>) THEN parseFloat(value.v)
  ELSE IF endsWith(value.v, <<"v", "w">>)
       THEN LET f == parseFloat(value.v)
            IN  IF f = NaN THEN NaN
                ELSE RMul(RDiv(f, Num(100)), Num(viewport.width))
  ELSE IF endsWith(value.v, <<"v", "h">>)
       THEN LET f == parseFloat(value.v)
            IN  IF f = NaN THEN NaN
                ELSE RMul(RDiv(f, Num(100)), Num(viewport.height))
  ELSE OrZero(parseFloat(value.v))

reservedWidth == 200 + 40 + 80 + 40

reservedHeight == 150 + 20 + 60 + 40 + 20

\* the effective bounds after the layout-chrome adjustment (lines 50-67)
EffectiveBounds(constraints, viewport, deviceType) ==
  LET maxWidthPx0  == convertToPixels(constraints.maxWidth, viewport)
      maxHeightPx0 == convertToPixels(constraints.maxHeight, viewport)
      minWidthPx   == convertToPixels(constraints.minWidth, viewport)
  IN  IF deviceType # "mobile"
      THEN [maxWidthPx  |-> RMax(minWidthPx, Num(viewport.width - reservedWidth)),
            maxHeightPx |-> RMin(maxHeightPx0, Num(viewport.height - 80)),
            minWidthPx  |-> minWidthPx]
      ELSE [maxWidthPx  |-> maxWidthPx0,
            maxHeightPx |-> RMax(Num(200), Num(viewport.height - reservedHeight)),
            minWidthPx  |-> minWidthPx]

\* mutant: the width-first fit is taken without checking its height
SelectDimensions_NoHeightCheck(imageDimensions, b) ==
  LET aspectRatio == imageDimensions.aspectRatio
      widthConstrainedWidth   == RMin(b.maxWidthPx, Num(imageDimensions.naturalWidth))
      heightConstrainedHeight == RMin(b.maxHeightPx, Num(imageDimensions.naturalHeight))
      heightConstrainedWidth  == RMul(heightConstrainedHeight, aspectRatio)
  IN  IF RGe(widthConstrainedWidth, b.minWidthPx)
      THEN [displayWidth |-> widthConstrainedWidth,
            displayHeight |-> RDiv(widthConstrainedWidth, aspectRatio),
            branch |-> "width"]
      ELSE IF RGe(heightConstrainedWidth, b.minWidthPx)
      THEN [displayWidth |-> heightConstrainedWidth,
            displayHeight |-> heightConstrainedHeight, branch |-> "height"]
      ELSE [displayWidth |-> b.minWidthPx,
            displayHeight |-> RDiv(b.minWidthPx, aspectRatio), branch |-> "minWidth"]

\* mutant: the too-tall fallback caps the height but keeps the minimum width
SelectDimensions_KeepMinWidth(imageDimensions, b) ==
  LET aspectRatio == imageDimensions.aspectRatio
      widthConstrainedWidth   == RMin(b.maxWidthPx, Num(imageDimensions.naturalWidth))
      widthConstrainedHeight  == RDiv(widthConstrainedWidth, aspectRatio)
      heightConstrainedHeight == RMin(b.maxHeightPx, Num(imageDimensions.naturalHeight))
      heightConstrainedWidth  == RMul(heightConstrainedHeight, aspectRatio)
      minHeight               == RDiv(b.minWidthPx, aspectRatio)
  IN  IF RLe(widthConstrainedHeight, b.maxHeightPx)
         /\ RGe(widthConstrainedWidth, b.minWidthPx)
      THEN [displayWidth |-> widthConstrainedWidth,
            displayHeight |-> widthConstrainedHeight, branch |-> "width"]
      ELSE IF RGe(heightConstrainedWidth, b.minWidthPx)
      THEN [displayWidth |-> heightConstrainedWidth,
            displayHeight |-> heightConstrainedHeight, branch |-> "height"]
      ELSE [displayWidth |-> b.minWidthPx,
            displayHeight |-> RMin(minHeight, b.maxHeightPx), branch |-> "minWidth"]

\* the unrounded display size and the branch that chose it (lines 69-99)
SelectDimensions(imageDimensions, b) ==
  LET aspectRatio == imageDimensions.aspectRatio
      widthConstrainedWidth   == RMin(b.maxWidthPx, Num(imageDimensions.naturalWidth))
      widthConstrainedHeight  == RDiv(widthConstrainedWidth, aspectRatio)
      heightConstrainedHeight == RMin(b.maxHeightPx, Num(imageDimensions.naturalHeight))
      heightConstrainedWidth  == RMul(heightConstrainedHeight, aspectRatio)
      minHeight               == RDiv(b.minWidthPx, aspectRatio)
  IN  IF RLe(widthConstrainedHeight, b.maxHeightPx)
         /\ RGe(widthConstrainedWidth, b.minWidthPx)
      THEN [displayWidth |-> widthConstrainedWidth,
            displayHeight |-> widthConstrainedHeight, branch |-> "width"]
      ELSE IF RGe(heightConstrainedWidth, b.minWidthPx)
      THEN [displayWidth |-> heightConstrainedWidth,
            displayHeight |-> heightConstrainedHeight, branch |-> "height"]
      ELSE IF RGt(minHeight, b.maxHeightPx)
      THEN [displayWidth |-> RMul(b.maxHeightPx, aspectRatio),
            displayHeight |-> b.maxHeightPx, branch |-> "minWidthTooTall"]
      ELSE [displayWidth |-> b.minWidthPx,
            displayHeight |-> minHeight, branch |-> "minWidth"]

\* mutant: the placeholder takes the maximum width instead of the minimum
calculateResponsiveDimensions_MaxDefault(imageDimensions, constraints, viewport, deviceType) ==
  IF imageDimensions = Null
  THEN [displayWidth    |-> constraints.maxWidth,
        displayHeight   |-> Auto,
        containerWidth  |-> constraints.maxWidth,
        containerHeight |-> Auto,
        scale           |-> Num(1)]
  ELSE LET b == EffectiveBounds(constraints, viewport, deviceType)
           d == SelectDimensions(imageDimensions, b)
       IN  [displayWidth    |-> Px(MathRound(d.displayWidth)),
            displayHeight   |-> Px(MathRound(d.displayHeight)),
            containerWidth  |-> Px(MathRound(d.displayWidth)),
            containerHeight |-> Px(MathRound(d.displayHeight)),
            scale           |-> RDiv(d.displayWidth, Num(imageDimensions.naturalWidth))]

calculateResponsiveDimensions(imageDimensions, constraints, viewport, deviceType) ==
  IF imageDimensions = Null
  THEN [displayWidth    |-> constraints.minWidth,
        displayHeight   |-> Auto,
        containerWidth  |-> constraints.minWidth,
        containerHeight |-> Auto,
        scale           |-> Num(1)]
  ELSE LET b == EffectiveBounds(constraints, viewport, deviceType)
           d == SelectDimensions(imageDimensions, b)
       IN  [displayWidth    |-> Px(MathRound(d.displayWidth)),
            displayHeight   |-> Px(MathRound(d.displayHeight)),
            containerWidth  |-> Px(MathRound(d.displayWidth)),
            containerHeight |-> Px(MathRound(d.displayHeight)),
            scale           |-> RDiv(d.displayWidth, Num(imageDimensions.naturalWidth))]

(***************************************************************************)
(* State.                                                                  *)
(***************************************************************************)
VARIABLES
  fitIn,        \* arguments of calculateResponsiveDimensions
  fitOut,       \* its latest result
  fitPrev,      \* the result of the call before
  fitCalls,     \* number of calls made with fitIn
  clsIn,        \* arguments of getDeviceType / getLayoutConstraints
  clsOut,       \* their results
  cvtIn,        \* arguments of convertToPixels
  cvtOut,       \* its result
  geoIn,        \* natural sizes of the background and the foreground image
  geoOut,       \* the canvas size and the foreground placement computed
  imageSrc,     \* useImageDimensions: the imageSrc argument of the last render
  dimensions,   \* useImageDimensions state: dimensions
  isLoading,    \* useImageDimensions state: isLoading
  error,        \* useImageDimensions state: error
  images,       \* the Image objects created by loadImageDimensions, in order
  effectImage,  \* the image the effect's cleanup refers to, 0 when it has none
  hookMounted,  \* the component using useImageDimensions is mounted
  imgEvent,     \* history: the latest step of the hook and the image it concerns
  app,          \* the store: state.app
  appLog,       \* history: the latest dispatch, its input state and the state before
  selectedBackgroundLocal, \* BackgroundSelectionPage state: selectedBackground
  selectionError, \* BackgroundSelectionPage state: error
  path,         \* the route of the router: "/" or "/photo"
  lastClicked,  \* history: index of the thumbnail clicked last since the mount
  selEvent,     \* history: the latest step on the selection page
  combinedImage, \* ResultPage: location.state?.combinedImage
  uploadStatus, \* ResultPage state: uploadStatus
  imageUrl,     \* ResultPage state: imageUrl
  uploads,      \* the uploads requested from the storage bucket, in order
  win,          \* window.innerWidth / innerHeight
  viewport,     \* useDeviceDetection state: viewport
  deviceType,   \* useDeviceDetection state: deviceType
  devMounted,   \* the hook is mounted and its listeners are attached
  devTimers,    \* deadlines of the pending setTimeout callbacks of debounce
  timeout,      \* the `timeout` variable of the debounce closure
  devNow,       \* the clock, in ms since mount
  lastEvent,    \* history: time and window size of the latest handled event
  updates,      \* history: times of the viewport updates since that event
  page,         \* the route shown: "photo", "result" or "home"
  selectedBackground, \* state.app.selectedBackground of the store
  processing,   \* PhotoPage state: processing
  processingStep, \* PhotoPage state: processingStep
  fetching,     \* a background-removal request is in flight
  calls,        \* the combineImages calls made so far, in order
  canvas,       \* the canvas element behind canvasRef
  navState,     \* the state passed to navigate("/result")
  now           \* the clock, in ms

fitVars == <<fitIn, fitOut, fitPrev, fitCalls>>

clsVars == <<clsIn, clsOut>>

devVars == <<win, viewport, deviceType, devMounted, devTimers, timeout, devNow,
             lastEvent, updates>>

photoVars == <<page, selectedBackground, processing, processingStep, fetching,
               calls, canvas, navState, now>>

cvtVars == <<cvtIn, cvtOut>>

geoVars == <<geoIn, geoOut>>

imgVars == <<imageSrc, dimensions, isLoading, error, images, effectImage,
             hookMounted, imgEvent>>

storeVars == <<app, appLog>>

selVars == <<selectedBackgroundLocal, selectionError, path, lastClicked, selEvent>>

resVars == <<combinedImage, uploadStatus, imageUrl, uploads>>

vars == <<fitVars, clsVars, devVars, photoVars, cvtVars, geoVars, imgVars,
          storeVars, selVars, resVars>>

\* what the steps of one component leave alone: the state of the others
fitRest == <<clsVars, devVars, photoVars, cvtVars, geoVars, imgVars,
             storeVars, selVars, resVars>>

clsRest == <<fitVars, devVars, photoVars, cvtVars, geoVars, imgVars,
             storeVars, selVars, resVars>>

devRest == <<fitVars, clsVars, photoVars, cvtVars, geoVars, imgVars,
             storeVars, selVars, resVars>>

photoRest == <<fitVars, clsVars, devVars, cvtVars, geoVars, imgVars,
             storeVars, selVars, resVars>>

cvtRest == <<fitVars, clsVars, devVars, photoVars, geoVars, imgVars,
             storeVars, selVars, resVars>>

geoRest == <<fitVars, clsVars, devVars, photoVars, cvtVars, imgVars,
             storeVars, selVars, resVars>>

imgRest == <<fitVars, clsVars, devVars, photoVars, cvtVars, geoVars,
             storeVars, selVars, resVars>>

storeRest == <<fitVars, clsVars, devVars, photoVars, cvtVars, geoVars, imgVars,
               selVars, resVars>>

selRest == <<fitVars, clsVars, devVars, photoVars, cvtVars, geoVars, imgVars,
             resVars>>

resRest == <<fitVars, clsVars, devVars, photoVars, cvtVars, geoVars, imgVars,
             storeVars, selVars>>

NoResult == [none |-> TRUE]

Undefined == "undefined"

(***************************************************************************)
(* Inputs of the fit: natural image sizes, viewports, and the two callers  *)
(* of calculateResponsiveDimensions.                                       *)
(***************************************************************************)
ImageSides == {100 * k : k \in 1..MaxDimK} \cup {1000, 1080, 1200, 1920, 3000}

\* the record useImageDimensions builds on load (aspectRatio = width / height)
ImageDimensions(w, h) ==
  [naturalWidth |-> w, naturalHeight |-> h, aspectRatio |-> Rat(w, h)]

Viewports ==
  {[width |-> 320, height |-> 568], [width |-> 375, height |-> 667],
   [width |-> 400, height |-> 805], [width |-> 750, height |-> 900],
   [width |-> 768, height |-> 1024], [width |-> 1000, height |-> 800],
   [width |-> 1024, height |-> 768], [width |-> 1024, height |-> 1366],
   [width |-> 1366, height |-> 1024], [width |-> 1440, height |-> 900],
   [width |-> 1920, height |-> 1080], [width |-> 2560, height |-> 1440]}
  \cup {[width |-> 300 + 333 * k, height |-> 401 + 151 * k] : k \in 0..MaxViewK}

\* the constraint record of the unit tests of calculateResponsiveDimensions
TestConstraints ==
  [maxWidth |-> Vw(80), maxHeight |-> Vh(70), minWidth |-> Px(400),
   bottomSpacing |-> Px(120)]

\* useResponsiveImageSize passes what useDeviceDetection reports for the
\* viewport; the tests pass their own record and no device type
FitCallers(vp) ==
  {[constraints |-> getLayoutConstraints(getDeviceType(vp.width, vp.height)),
    deviceType  |-> getDeviceType(vp.width, vp.height)],
   [constraints |-> TestConstraints, deviceType |-> Undefined]}

Images ==
  {Null} \cup {ImageDimensions(w, h) : w \in ImageSides, h \in ImageSides}

FitInputs ==
  UNION {{[imageDimensions |-> i, constraints |-> c.constraints, viewport |-> v,
           deviceType |-> c.deviceType] : i \in Images, c \in FitCallers(v)} :
         v \in Viewports}

FitIdle ==
  /\ fitIn = NoResult
  /\ fitOut = NoResult
  /\ fitPrev = NoResult
  /\ fitCalls = 0

FitInit ==
  /\ fitIn \in FitInputs
  /\ fitOut = NoResult
  /\ fitPrev = NoResult
  /\ fitCalls = 0

\* one evaluation of the useMemo body of useResponsiveImageSize
ComputeFit ==
  /\ fitCalls < 2
  /\ fitOut' = calculateResponsiveDimensions(fitIn.imageDimensions,
                  fitIn.constraints, fitIn.viewport, fitIn.deviceType)
  /\ fitPrev' = fitOut
  /\ fitCalls' = fitCalls + 1
  /\ UNCHANGED <<fitIn, fitRest>>

(***************************************************************************)
(* Inputs of the classifier.                                               *)
(***************************************************************************)
ClassifyWidths == 0..MaxClassifyWidth

ClassifyHeights == {568, 1024, 1366}

ClassNames == {"mobile", "tablet", "desktop", "invalid", "null", "undefined"}

ClsIdle ==
  /\ clsIn = NoResult
  /\ clsOut = NoResult

ClsInit ==
  /\ clsIn \in [width : ClassifyWidths, height : ClassifyHeights, name : ClassNames]
  /\ clsOut = NoResult

Classify ==
  /\ clsOut = NoResult
  /\ clsOut' = [deviceType  |-> getDeviceType(clsIn.width, clsIn.height),
                constraints |-> getLayoutConstraints(clsIn.name)]
  /\ UNCHANGED <<clsIn, clsRest>>

(***************************************************************************)
(* Inputs of convertToPixels: numbers, CSS lengths written from a number   *)
(* literal and a unit, and the values the unit tests call invalid.         *)
(***************************************************************************)
\* the literal `${sign}${k}` or `${sign}${k}.${frac}` with the number it denotes
Literal(neg, k, frac) ==
  LET head == (IF neg THEN <<"-">> ELSE <<>>) \o NatToStr(k)
      mag  == IF frac = 0 THEN Num(k)
              ELSE Rat(k * Pow10(Len(NatToStr(frac))) + frac,
                       Pow10(Len(NatToStr(frac))))
  IN  [text  |-> IF frac = 0 THEN head ELSE head \o <<".">> \o NatToStr(frac),
       value |-> IF neg THEN Rat(-mag.n, mag.d) ELSE mag]

Literals ==
  {Literal(neg, k, frac) :
     neg \in BOOLEAN, k \in (0..MaxLitK) \cup {50, 75, 95, 100, 400},
     frac \in {0, 5, 25}}

Units == [px |-> <<"p", "x">>, vw |-> <<"v", "w">>, vh |-> <<"v", "h">>]

InvalidValues ==
  {JsStr(<<"i", "n", "v", "a", "l", "i", "d">>), JsStr(<<>>), JsNull,
   JsStr(<<"a", "b", "c", "p", "x">>), JsStr(<<"v", "w">>),
   JsStr(<<"1", "2", "e", "m">>)}

ConvertViewports ==
  {[width |-> 1000, height |-> 800], [width |-> 375, height |-> 667],
   [width |-> 1920, height |-> 1080]}

\* kind tells how the value was written: "number", a unit, or "invalid"
ConvertInputs ==
  {[value |-> JsNum(l.value), kind |-> "number", lit |-> l, viewport |-> v] :
     l \in Literals, v \in ConvertViewports}
  \cup {[value |-> JsStr(l.text \o Units[u]), kind |-> u, lit |-> l,
          viewport |-> v] :
          l \in Literals, u \in DOMAIN Units, v \in ConvertViewports}
  \cup {[value |-> x, kind |-> "invalid", lit |-> Null, viewport |-> v] :
          x \in InvalidValues, v \in ConvertViewports}

CvtIdle ==
  /\ cvtIn = NoResult
  /\ cvtOut = NoResult

CvtInit ==
  /\ cvtIn \in ConvertInputs
  /\ cvtOut = NoResult

Convert ==
  /\ cvtOut = NoResult
  /\ cvtOut' = convertToPixels(cvtIn.value, cvtIn.viewport)
  /\ UNCHANGED <<cvtIn, cvtRest>>

(***************************************************************************)
(* hooks/useDeviceDetection.js: the hook and its debounced resize handler. *)
(***************************************************************************)
debounceMs == 250

NoTimer == -1

WindowSizes ==
  {[width |-> 320, height |-> 568], [width |-> 800, height |-> 600],
   [width |-> 1000, height |-> 800], [width |-> 1920, height |-> 1080]}

\* mutant: the pending timer is not cleared when a new event arrives
executedFunction_NoClear(timers, id, clock, wait) ==
  [timers |-> timers \cup {clock + wait}, timeout |-> clock + wait]

\* the debounced function: clearTimeout(timeout); timeout = setTimeout(later, wait)
executedFunction(timers, id, clock, wait) ==
  [timers |-> (timers \ {id}) \cup {clock + wait}, timeout |-> clock + wait]

DevIdle ==
  /\ win = NoResult
  /\ viewport = NoResult
  /\ deviceType = NoResult
  /\ devMounted = FALSE
  /\ devTimers = {}
  /\ timeout = NoTimer
  /\ devNow = 0
  /\ lastEvent = NoResult
  /\ updates = <<>>

\* after the first render and the effect's initial updateViewport()
DevInit ==
  /\ win \in WindowSizes
  /\ viewport = win
  /\ deviceType = getDeviceType(win.width, win.height)
  /\ devMounted = TRUE
  /\ devTimers = {}
  /\ timeout = NoTimer
  /\ devNow = 0
  /\ lastEvent = NoResult
  /\ updates = <<>>

\* history: the number of events handled since the last viewport update
BurstLength ==
  IF lastEvent = NoResult \/ updates # <<>> THEN 0 ELSE lastEvent.burst

\* the window takes a new size and dispatches 'resize'; the listener, while
\* attached, is debouncedUpdateViewport
Resize ==
  \E size \in WindowSizes :
     /\ BurstLength < MaxBurst
     /\ win' = size
     /\ IF devMounted
        THEN LET r == executedFunction(devTimers, timeout, devNow, debounceMs)
             IN  /\ devTimers' = r.timers
                 /\ timeout' = r.timeout
                 /\ lastEvent' = [type |-> "resize", at |-> devNow, win |-> size,
                                  burst |-> BurstLength + 1]
                 /\ updates' = <<>>
        ELSE UNCHANGED <<devTimers, timeout, lastEvent, updates>>
     /\ UNCHANGED <<viewport, deviceType, devMounted, devNow, devRest>>

\* the device is rotated and dispatches 'orientationchange', before or after
\* the window has taken the rotated size; same listener
OrientationChange ==
  \E size \in {win, [width |-> win.height, height |-> win.width]} :
     /\ BurstLength < MaxBurst
     /\ win' = size
     /\ IF devMounted
        THEN LET r == executedFunction(devTimers, timeout, devNow, debounceMs)
             IN  /\ devTimers' = r.timers
                 /\ timeout' = r.timeout
                 /\ lastEvent' = [type |-> "orientationchange", at |-> devNow,
                                  win |-> size, burst |-> BurstLength + 1]
                 /\ updates' = <<>>
        ELSE UNCHANGED <<devTimers, timeout, lastEvent, updates>>
     /\ UNCHANGED <<viewport, deviceType, devMounted, devNow, devRest>>

\* a timer of debounce expires: later() clears `timeout` and calls
\* updateViewport, mounted or not (the cleanup leaves the timer armed);
\* `updates` records the call, and its setViewport and setDeviceType change
\* the state while the hook is mounted (React drops them afterwards)
Later ==
  \E d \in devTimers :
     /\ d = devNow
     /\ devTimers' = devTimers \ {d, timeout}
     /\ updates' = Append(updates, devNow)
     /\ IF devMounted
        THEN /\ viewport' = win
             /\ deviceType' = getDeviceType(win.width, win.height)
        ELSE UNCHANGED <<viewport, deviceType>>
     /\ UNCHANGED <<win, devMounted, timeout, devNow, lastEvent, devRest>>

\* the effect's cleanup: both listeners are removed
Unmount ==
  /\ devMounted
  /\ devMounted' = FALSE
  /\ UNCHANGED <<win, viewport, deviceType, devTimers, timeout, devNow,
                 lastEvent, updates, devRest>>

MinOf(S) == CHOOSE x \in S : \A y \in S : x <= y

\* time passes, but not beyond the deadline of a pending timer
DevTick ==
  /\ devNow < MaxDevClock
  /\ \A d \in devTimers : d > devNow
  /\ devNow' = MinOf({devNow + DevTickMs, MaxDevClock} \cup devTimers)
  /\ UNCHANGED <<win, viewport, deviceType, devMounted, devTimers, timeout,
                 lastEvent, updates, devRest>>

(***************************************************************************)
(* PhotoPage (ResultPage.jsx:286-605): capture flow and canvas compositor. *)
(***************************************************************************)
DEFAULT_BACKGROUND_PATH == "/bg1.jpg"

CompositeTimeoutMs == 15000

\* natural sizes of the background and foreground images that load
BackgroundSizes ==
  {[width |-> 1080, height |-> 1920], [width |-> 1920, height |-> 1080],
   [width |-> 400, height |-> 1600]}

ForegroundSizes ==
  {[width |-> 1280, height |-> 720], [width |-> 480, height |-> 1280]}

\* assignment to canvas.width / canvas.height keeps the integer part
ToUnsignedLong(x) == x.n \div x.d

\* mutant: the landscape branch without the 800 px floor
CanvasSize_NoMinHeight(background) ==
  LET maxWidth  == Num(1080)
      maxHeight == Num(1920)
      backgroundAspectRatio == Rat(background.width, background.height)
  IN  IF RGt(backgroundAspectRatio, RDiv(maxWidth, maxHeight))
      THEN [width  |-> ToUnsignedLong(maxWidth),
            height |-> ToUnsignedLong(RDiv(maxWidth, backgroundAspectRatio))]
      ELSE LET canvasWidth == RMul(maxHeight, backgroundAspectRatio)
           IN  IF RLt(canvasWidth, Num(600))
               THEN [width  |-> 600,
                     height |-> ToUnsignedLong(RDiv(Num(600), backgroundAspectRatio))]
               ELSE [width  |-> ToUnsignedLong(canvasWidth),
                     height |-> ToUnsignedLong(maxHeight)]

\* mutant: the width is not derived again when the 800 px floor is hit
CanvasSize_KeepsWidth(background) ==
  LET maxWidth  == Num(1080)
      maxHeight == Num(1920)
      backgroundAspectRatio == Rat(background.width, background.height)
  IN  IF RGt(backgroundAspectRatio, RDiv(maxWidth, maxHeight))
      THEN LET canvasHeight == RDiv(maxWidth, backgroundAspectRatio)
           IN  IF RLt(canvasHeight, Num(800))
               THEN [width  |-> ToUnsignedLong(maxWidth),
                     height |-> 800]
               ELSE [width  |-> ToUnsignedLong(maxWidth),
                     height |-> ToUnsignedLong(canvasHeight)]
      ELSE LET canvasWidth == RMul(maxHeight, backgroundAspectRatio)
           IN  IF RLt(canvasWidth, Num(600))
               THEN [width  |-> 600,
                     height |-> ToUnsignedLong(RDiv(Num(600), backgroundAspectRatio))]
               ELSE [width  |-> ToUnsignedLong(canvasWidth),
                     height |-> ToUnsignedLong(maxHeight)]

\* the canvas size chosen in background.onload (lines 407-431)
CanvasSize(background) ==
  LET maxWidth  == Num(1080)
      maxHeight == Num(1920)
      backgroundAspectRatio == Rat(background.width, background.height)
  IN  IF RGt(backgroundAspectRatio, RDiv(maxWidth, maxHeight))
      THEN LET canvasHeight == RDiv(maxWidth, backgroundAspectRatio)
           IN  IF RLt(canvasHeight, Num(800))
               THEN [width  |-> ToUnsignedLong(RMul(Num(800), backgroundAspectRatio)),
                     height |-> 800]
               ELSE [width  |-> ToUnsignedLong(maxWidth),
                     height |-> ToUnsignedLong(canvasHeight)]
      ELSE LET canvasWidth == RMul(maxHeight, backgroundAspectRatio)
           IN  IF RLt(canvasWidth, Num(600))
               THEN [width  |-> 600,
                     height |-> ToUnsignedLong(RDiv(Num(600), backgroundAspectRatio))]
               ELSE [width  |-> ToUnsignedLong(canvasWidth),
                     height |-> ToUnsignedLong(maxHeight)]

\* mutant: the comparison of the aspect ratios is reversed
ForegroundPlacement_Cover(foreground, cv) ==
  LET foregroundAspectRatio == Rat(foreground.width, foreground.height)
      canvasAspectRatio     == Rat(cv.width, cv.height)
  IN  IF RLt(foregroundAspectRatio, canvasAspectRatio)
      THEN LET drawHeight == RDiv(Num(cv.width), foregroundAspectRatio)
           IN  [drawWidth |-> Num(cv.width), drawHeight |-> drawHeight,
                offsetX |-> Num(0),
                offsetY |-> RDiv(RSub(Num(cv.height), drawHeight), Num(2))]
      ELSE LET drawWidth == RMul(Num(cv.height), foregroundAspectRatio)
           IN  [drawWidth |-> drawWidth, drawHeight |-> Num(cv.height),
                offsetX |-> RDiv(RSub(Num(cv.width), drawWidth), Num(2)),
                offsetY |-> Num(0)]

\* the placement of the foreground computed in foreground.onload (lines 440-457)
ForegroundPlacement(foreground, cv) ==
  LET foregroundAspectRatio == Rat(foreground.width, foreground.height)
      canvasAspectRatio     == Rat(cv.width, cv.height)
  IN  IF RGt(foregroundAspectRatio, canvasAspectRatio)
      THEN LET drawHeight == RDiv(Num(cv.width), foregroundAspectRatio)
           IN  [drawWidth |-> Num(cv.width), drawHeight |-> drawHeight,
                offsetX |-> Num(0),
                offsetY |-> RDiv(RSub(Num(cv.height), drawHeight), Num(2))]
      ELSE LET drawWidth == RMul(Num(cv.height), foregroundAspectRatio)
           IN  [drawWidth |-> drawWidth, drawHeight |-> Num(cv.height),
                offsetX |-> RDiv(RSub(Num(cv.width), drawWidth), Num(2)),
                offsetY |-> Num(0)]

\* a combineImages call right after new Promise(...) has run its executor:
\* the timer is armed and the background has been requested
NewCall(backgroundSrc, t) ==
  [status |-> "pending", error |-> "", backgroundSrc |-> backgroundSrc,
   background |-> "loading", foreground |-> "unset",
   timer |-> t + CompositeTimeoutMs, startedAt |-> t, events |-> <<>>]

\* reject(new Error(message)): settles the promise unless it is settled
Reject(call, message) ==
  IF call.status = "pending"
  THEN [call EXCEPT !.status = "rejected", !.error = message]
  ELSE call

\* resolve(combinedImage)
Resolve(call) ==
  IF call.status = "pending" THEN [call EXCEPT !.status = "resolved"] ELSE call

Log(call, e, t) == [call EXCEPT !.events = Append(@, [e |-> e, at |-> t])]

\* what the drawing and encoding steps of the load callbacks can do: drawImage
\* (lines 434, 458) and toDataURL (line 460) return or throw
BackgroundSteps == {"ok", "drawImage throws"}

ForegroundSteps == {"ok", "drawImage throws", "toDataURL throws"}

\* mutant: foreground.onload does not cancel the timer
foregroundOnload_KeepsTimer(call, t, step) ==
  IF step = "ok"
  THEN Resolve(Log([call EXCEPT !.foreground = "loaded"], "foreground.onload", t))
  ELSE Log([call EXCEPT !.foreground = "threw"], "foreground.onload", t)

\* the effects of the handlers on their own call (lines 398-400, 405-478);
\* foreground.onload clears the timer first and resolves last, so an exception
\* in between leaves the call without timer and unsettled
foregroundOnload(call, t, step) ==
  IF step = "ok"
  THEN Resolve(Log([call EXCEPT !.foreground = "loaded", !.timer = NoTimer],
                   "foreground.onload", t))
  ELSE Log([call EXCEPT !.foreground = "threw", !.timer = NoTimer],
           "foreground.onload", t)

foregroundOnerror(call, t) ==
  Reject(Log([call EXCEPT !.foreground = "error", !.timer = NoTimer],
             "foreground.onerror", t),
         "Failed to load foreground image")

\* mutant: foreground.src is assigned before the background is drawn
backgroundOnload_RequestsFirst(call, t, step) ==
  IF step = "ok"
  THEN Log([call EXCEPT !.background = "loaded", !.foreground = "loading"],
           "background.onload", t)
  ELSE Log([call EXCEPT !.background = "threw", !.foreground = "loading"],
           "background.onload", t)

\* background.onload assigns foreground.src last (line 471), after the drawing
backgroundOnload(call, t, step) ==
  IF step = "ok"
  THEN Log([call EXCEPT !.background = "loaded", !.foreground = "loading"],
           "background.onload", t)
  ELSE Log([call EXCEPT !.background = "threw"], "background.onload", t)

backgroundOnerror(call, t) ==
  Reject(Log([call EXCEPT !.background = "error", !.timer = NoTimer],
             "background.onerror", t),
         "Failed to load background image")

timeoutCallback(call, t) ==
  Reject(Log([call EXCEPT !.timer = NoTimer], "timeout", t),
         "Image loading timeout")

\* what the render shows (lines 562-575)
ButtonText ==
  IF processing
  THEN (IF processingStep # "" THEN processingStep ELSE "Processing...")
  ELSE "Capture"

StepShown == processing /\ processingStep # ""

ShownTexts == {ButtonText} \cup (IF StepShown THEN {processingStep} ELSE {})

\* mutant: the Capture button is never disabled
CaptureDisabled_Never == FALSE

CaptureDisabled == processing

\* the Change button (lines 542-544)
ChangeDisabled == processing

BlankCanvas ==
  [width |-> 1080, height |-> 1920, writer |-> 0, draws |-> 0,
   content |-> <<>>, placement |-> NoResult]

PhotoIdle ==
  /\ page = "none"
  /\ selectedBackground = Null
  /\ processing = FALSE
  /\ processingStep = ""
  /\ fetching = FALSE
  /\ calls = <<>>
  /\ canvas = BlankCanvas
  /\ navState = NoResult
  /\ now = 0

\* PhotoPage has just been mounted
PhotoInit ==
  /\ page = "photo"
  /\ selectedBackground \in
       {Null, [id |-> "bg2", src |-> "/bg2.jpg", label |-> "Background 2"]}
  /\ processing = FALSE
  /\ processingStep = ""
  /\ fetching = FALSE
  /\ calls = <<>>
  /\ canvas = BlankCanvas
  /\ navState = NoResult
  /\ now = 0

\* handleStartCapture (lines 319-328), with or without a screenshot
handleStartCapture ==
  \E screenshot \in {"data:image/jpeg", "null"} :
     /\ page = "photo"
     /\ ~CaptureDisabled
     /\ Len(calls) < MaxCalls
     /\ processing' = TRUE
     /\ IF screenshot # "null"
        THEN /\ processingStep' = ""
             /\ fetching' = TRUE
        ELSE /\ processingStep' = "Capturing image..."
             /\ UNCHANGED fetching
     /\ UNCHANGED <<page, selectedBackground, calls, canvas, navState, now,
                    photoRest>>

\* the request of processBackgroundRemoval settles (lines 344-364); on success
\* combineWithSelectedBackground starts combineImages (lines 367-377, 389-400)
FetchSettles ==
  \E outcome \in {"ok", "not ok", "network error"} :
     /\ fetching
     /\ fetching' = FALSE
     /\ IF outcome = "ok"
        THEN /\ processingStep' = "Combining with background..."
             /\ calls' = Append(calls,
                  NewCall(IF selectedBackground # Null THEN selectedBackground.src
                          ELSE DEFAULT_BACKGROUND_PATH, now))
             /\ UNCHANGED processing
        ELSE /\ processingStep' = "Error removing background. Please try again."
             /\ processing' = FALSE
             /\ UNCHANGED calls
     /\ UNCHANGED <<page, selectedBackground, canvas, navState, now,
                    photoRest>>

\* the rest of combineWithSelectedBackground after the await (lines 377-385),
\* run when the handler that settled the promise returns
AfterAwait(before, after, image) ==
  IF before.status = "pending" /\ after.status = "resolved" /\ page = "photo"
  THEN /\ processingStep' = "Complete! Redirecting..."
       /\ page' = "result"
       /\ navState' = [combinedImage |-> image]
       /\ UNCHANGED processing
  ELSE IF before.status = "pending" /\ after.status = "rejected" /\ page = "photo"
  THEN /\ processingStep' = "Error combining images. Please try again."
       /\ processing' = FALSE
       /\ UNCHANGED <<page, navState>>
  ELSE UNCHANGED <<processingStep, processing, page, navState>>

\* background.onload (lines 404-472)
BackgroundLoad ==
  \E c \in 1..Len(calls), size \in BackgroundSizes, step \in BackgroundSteps :
     /\ calls[c].background = "loading"
     /\ calls' = [calls EXCEPT ![c] = backgroundOnload(@, now, step)]
     /\ canvas' = [width     |-> CanvasSize(size).width,
                   height    |-> CanvasSize(size).height,
                   writer    |-> c,
                   draws     |-> canvas.draws + 1,
                   content   |-> IF step = "ok"
                                 THEN <<[layer |-> "background", call |-> c]>>
                                 ELSE <<>>,
                   placement |-> NoResult]
     /\ UNCHANGED <<page, selectedBackground, processing, processingStep,
                    fetching, navState, now, photoRest>>

\* background.onerror (lines 474-478)
BackgroundError ==
  \E c \in 1..Len(calls) :
     /\ calls[c].background = "loading"
     /\ calls' = [calls EXCEPT ![c] = backgroundOnerror(@, now)]
     /\ AfterAwait(calls[c], calls'[c], NoResult)
     /\ UNCHANGED <<selectedBackground, fetching, canvas, now,
                    photoRest>>

\* foreground.onload (lines 436-463)
ForegroundLoad ==
  \E c \in 1..Len(calls), size \in ForegroundSizes, step \in ForegroundSteps :
     /\ calls[c].foreground = "loading"
     /\ calls' = [calls EXCEPT ![c] = foregroundOnload(@, now, step)]
     /\ canvas' = IF step = "drawImage throws" THEN canvas
                  ELSE [canvas EXCEPT
                     !.writer = c,
                     !.draws = @ + 1,
                     !.content = Append(@, [layer |-> "foreground", call |-> c]),
                     !.placement = ForegroundPlacement(size, canvas)]
     /\ AfterAwait(calls[c], calls'[c], canvas'.content)
     /\ UNCHANGED <<selectedBackground, fetching, now, photoRest>>

\* foreground.onerror (lines 465-469)
ForegroundError ==
  \E c \in 1..Len(calls) :
     /\ calls[c].foreground = "loading"
     /\ calls' = [calls EXCEPT ![c] = foregroundOnerror(@, now)]
     /\ AfterAwait(calls[c], calls'[c], NoResult)
     /\ UNCHANGED <<selectedBackground, fetching, canvas, now,
                    photoRest>>

\* the callback of setTimeout(..., 15000) (lines 397-399)
Timeout ==
  \E c \in 1..Len(calls) :
     /\ calls[c].timer = now
     /\ calls' = [calls EXCEPT ![c] = timeoutCallback(@, now)]
     /\ AfterAwait(calls[c], calls'[c], NoResult)
     /\ UNCHANGED <<selectedBackground, fetching, canvas, now,
                    photoRest>>

\* handleChangeBackground (lines 314-316), behind the Change button
handleChangeBackground ==
  /\ page = "photo"
  /\ selectedBackground # Null
  /\ ~ChangeDisabled
  /\ page' = "home"
  /\ UNCHANGED <<selectedBackground, processing, processingStep, fetching,
                 calls, canvas, navState, now, photoRest>>

ArmedTimers == {calls[c].timer : c \in 1..Len(calls)} \ {NoTimer}

\* time passes, but not beyond the deadline of an armed timer; the clock
\* stops at MaxClock once no timer is armed
Tick ==
  /\ now < MaxClock \/ ArmedTimers # {}
  /\ \A d \in ArmedTimers : d > now
  /\ now' = MinOf((IF now < MaxClock THEN {now + TickMs, MaxClock} ELSE {})
                    \cup ArmedTimers)
  /\ UNCHANGED <<page, selectedBackground, processing, processingStep,
                 fetching, calls, canvas, navState, photoRest>>

(***************************************************************************)
(* The geometry of combineImages on its own: the two onload handlers over  *)
(* a range of natural image sizes.                                         *)
(***************************************************************************)
BackgroundSides == {150 * k : k \in 1..MaxSideK} \cup {1080, 1350, 1920, 2400}

ForegroundSides == {480, 720, 1000, 1280, 1920}

GeoIdle ==
  /\ geoIn = NoResult
  /\ geoOut = NoResult

GeoInit ==
  /\ geoIn \in [background : [width : BackgroundSides, height : BackgroundSides],
                 foreground : [width : ForegroundSides, height : ForegroundSides]]
  /\ geoOut = NoResult

\* background.onload: canvas.width and canvas.height are assigned
SizeCanvas ==
  /\ geoOut = NoResult
  /\ geoOut' = [canvas |-> CanvasSize(geoIn.background), placement |-> NoResult]
  /\ UNCHANGED <<geoIn, geoRest>>

\* foreground.onload: the arguments of ctx.drawImage(foreground, ...)
PlaceForeground ==
  /\ geoOut # NoResult
  /\ geoOut.placement = NoResult
  /\ geoOut' = [geoOut EXCEPT
                  !.placement = ForegroundPlacement(geoIn.foreground, geoOut.canvas)]
  /\ UNCHANGED <<geoIn, geoRest>>

(***************************************************************************)
(* hooks/useImageDimensions.js: the hook, the images it creates and their  *)
(* load and error listeners.                                               *)
(***************************************************************************)
ImageSources ==
  {Null, JsStr(""), JsStr("test-image.jpg"), JsStr("wide-image.jpg")}

\* !imageSrc
NoSource(src) == src = Null \/ src = JsStr("")

\* img.naturalWidth and img.naturalHeight of the image behind a source
NaturalSize(src) ==
  IF src = JsStr("wide-image.jpg")
  THEN [naturalWidth |-> 1920, naturalHeight |-> 1080]
  ELSE [naturalWidth |-> 800, naturalHeight |-> 600]

\* new Image() with both listeners added and src assigned
NewImage(src) == [src |-> src, listening |-> TRUE, state |-> "loading"]

\* the hook's state after loadImageDimensions() ran for src; cleanup is the
\* image its returned function refers to, 0 when it returns nothing
loadImageDimensions(src, st) ==
  IF NoSource(src)
  THEN [st EXCEPT !.error = JsStr("No image source provided"),
                  !.isLoading = FALSE, !.cleanup = 0]
  ELSE [dimensions |-> Null, isLoading |-> TRUE, error |-> Null,
        images |-> Append(st.images, NewImage(src)),
        cleanup |-> Len(st.images) + 1]

handleError(st) ==
  [st EXCEPT !.error = JsStr("Failed to load image dimensions"),
             !.isLoading = FALSE, !.dimensions = Null]

handleLoad(st, img) ==
  LET naturalWidth  == NaturalSize(img.src).naturalWidth
      naturalHeight == NaturalSize(img.src).naturalHeight
  IN  [st EXCEPT !.dimensions = [width |-> naturalWidth, height |-> naturalHeight,
                                 aspectRatio |-> Rat(naturalWidth, naturalHeight),
                                 naturalWidth |-> naturalWidth,
                                 naturalHeight |-> naturalHeight],
                 !.isLoading = FALSE, !.error = Null]

\* the function returned by loadImageDimensions: the listeners of its image
\* are removed and its src is cleared
cleanup(imgs, i) ==
  IF i = 0 THEN imgs
  ELSE [imgs EXCEPT ![i].listening = FALSE,
                    ![i].state = IF @ = "loading" THEN "cancelled" ELSE @]

HookState ==
  [dimensions |-> dimensions, isLoading |-> isLoading, error |-> error,
   images |-> images, cleanup |-> effectImage]

ImgIdle ==
  /\ imageSrc = NoResult
  /\ dimensions = NoResult
  /\ isLoading = NoResult
  /\ error = NoResult
  /\ images = <<>>
  /\ effectImage = 0
  /\ hookMounted = FALSE
  /\ imgEvent = NoResult

\* the first render (useState initial values) followed by its effect
ImgInit ==
  /\ imageSrc \in ImageSources
  /\ LET st == loadImageDimensions(imageSrc,
                  [dimensions |-> Null, isLoading |-> TRUE, error |-> Null,
                   images |-> <<>>, cleanup |-> 0])
     IN  /\ dimensions = st.dimensions
         /\ isLoading = st.isLoading
         /\ error = st.error
         /\ images = st.images
         /\ effectImage = st.cleanup
  /\ hookMounted = TRUE
  /\ imgEvent = [op |-> "mount", img |-> effectImage]

\* a render with another imageSrc: the effect's cleanup, then the effect
SetSource ==
  \E src \in ImageSources \ {imageSrc} :
     /\ hookMounted
     /\ NoSource(src) \/ Len(images) < MaxImages
     /\ LET st == loadImageDimensions(src,
                     [HookState EXCEPT !.images = cleanup(images, effectImage)])
        IN  /\ dimensions' = st.dimensions
            /\ isLoading' = st.isLoading
            /\ error' = st.error
            /\ images' = st.images
            /\ effectImage' = st.cleanup
            /\ imgEvent' = [op |-> "source", img |-> st.cleanup]
     /\ imageSrc' = src
     /\ UNCHANGED <<hookMounted, imgRest>>

\* retry(): loadImageDimensions() again; what it returns is dropped
Retry ==
  /\ hookMounted
  /\ NoSource(imageSrc) \/ Len(images) < MaxImages
  /\ LET st == loadImageDimensions(imageSrc, HookState)
     IN  /\ dimensions' = st.dimensions
         /\ isLoading' = st.isLoading
         /\ error' = st.error
         /\ images' = st.images
         /\ imgEvent' = [op |-> "retry", img |-> st.cleanup]
  /\ UNCHANGED <<imageSrc, effectImage, hookMounted, imgRest>>

\* the load event of an image; its listener, when still attached, is handleLoad
ImageLoad ==
  \E i \in 1..Len(images) :
     /\ images[i].state = "loading"
     /\ images[i].listening
     /\ LET st == IF hookMounted THEN handleLoad(HookState, images[i])
                  ELSE HookState
        IN  /\ dimensions' = st.dimensions
            /\ isLoading' = st.isLoading
            /\ error' = st.error
     /\ images' = [images EXCEPT ![i].state = "loaded"]
     /\ imgEvent' = [op |-> "load", img |-> i]
     /\ UNCHANGED <<imageSrc, effectImage, hookMounted, imgRest>>

\* the error event of an image
ImageError ==
  \E i \in 1..Len(images) :
     /\ images[i].state = "loading"
     /\ images[i].listening
     /\ LET st == IF hookMounted THEN handleError(HookState) ELSE HookState
        IN  /\ dimensions' = st.dimensions
            /\ isLoading' = st.isLoading
            /\ error' = st.error
     /\ images' = [images EXCEPT ![i].state = "failed"]
     /\ imgEvent' = [op |-> "error", img |-> i]
     /\ UNCHANGED <<imageSrc, effectImage, hookMounted, imgRest>>

\* unmount: the effect's cleanup
UnmountHook ==
  /\ hookMounted
  /\ hookMounted' = FALSE
  /\ images' = cleanup(images, effectImage)
  /\ effectImage' = 0
  /\ imgEvent' = [op |-> "unmount", img |-> effectImage]
  /\ UNCHANGED <<imageSrc, dimensions, isLoading, error, imgRest>>

(***************************************************************************)
(* features/appSlice: the reducer of the store.                            *)
(***************************************************************************)
JsUndefined == [t |-> "undefined"]

initialState ==
  [name |-> JsStr(""), photo |-> Null, processedPhoto |-> Null,
   presetImage |-> Null, finalImageUrl |-> JsStr(""),
   selectedBackground |-> Null]

\* the case reducers, applied to the draft
setName(state, action) == [state EXCEPT !.name = action.payload]

setPhoto(state, action) == [state EXCEPT !.photo = action.payload]

setProcessedPhoto(state, action) ==
  [state EXCEPT !.processedPhoto = action.payload]

setPresetImage(state, action) == [state EXCEPT !.presetImage = action.payload]

setFinalImageUrl(state, action) ==
  [state EXCEPT !.finalImageUrl = action.payload]

setSelectedBackground(state, action) ==
  [state EXCEPT !.selectedBackground = action.payload]

\* mutant: clearing the background resets the whole slice
clearSelectedBackground_ResetsAll(state) == initialState

clearSelectedBackground(state) == [state EXCEPT !.selectedBackground = Null]

\* the field an action type writes
OwnField ==
  [setName |-> "name", setPhoto |-> "photo",
   setProcessedPhoto |-> "processedPhoto", setPresetImage |-> "presetImage",
   setFinalImageUrl |-> "finalImageUrl",
   setSelectedBackground |-> "selectedBackground",
   clearSelectedBackground |-> "selectedBackground"]

\* the slice reducer built by createSlice: the case reducer of the action
\* type runs on a draft of the state; base is the input state afterwards
appReducer(state, action) ==
  [base |-> state,
   next |-> CASE action.type = "setName" -> setName(state, action)
              [] action.type = "setPhoto" -> setPhoto(state, action)
              [] action.type = "setProcessedPhoto" ->
                   setProcessedPhoto(state, action)
              [] action.type = "setPresetImage" -> setPresetImage(state, action)
              [] action.type = "setFinalImageUrl" ->
                   setFinalImageUrl(state, action)
              [] action.type = "setSelectedBackground" ->
                   setSelectedBackground(state, action)
              [] action.type = "clearSelectedBackground" ->
                   clearSelectedBackground(state)
              [] OTHER -> state]

BACKGROUND_OPTIONS ==
  << [id |-> "bg",  src |-> "/bg.jpg",  label |-> "Background 1"],
     [id |-> "bg1", src |-> "/bg1.jpg", label |-> "Background 2"],
     [id |-> "bg2", src |-> "/bg2.jpg", label |-> "Background 3"],
     [id |-> "bg3", src |-> "/bg3.jpg", label |-> "Background 4"],
     [id |-> "bg4", src |-> "/bg4.jpg", label |-> "Background 5"],
     [id |-> "bg4", src |-> "/ccc.png", label |-> "Background 5"],
     [id |-> "bg5", src |-> "/bg5.jpg", label |-> "Background 6"] >>

\* payloads the tests of the slice dispatch
Payloads ==
  [setName |-> {JsStr(""), JsStr("John Doe")},
   setPhoto |-> {Null, JsStr("data:image/jpeg;base64,mockPhoto")},
   setProcessedPhoto |-> {Null, JsStr("data:image/png;base64,mockProcessedPhoto")},
   setPresetImage |-> {Null, JsStr("data:image/jpeg;base64,mockPresetImage")},
   setFinalImageUrl |-> {JsStr(""), JsStr("https://example.com/final-image.jpg")},
   setSelectedBackground |->
     {Null, JsUndefined, [id |-> "bg1", src |-> "/bg1.jpg"],
      BACKGROUND_OPTIONS[2], BACKGROUND_OPTIONS[3]},
   clearSelectedBackground |-> {JsUndefined}]

AppActions ==
  UNION {{[type |-> t, payload |-> p] : p \in Payloads[t]} : t \in DOMAIN Payloads}

StoreIdle ==
  /\ app = NoResult
  /\ appLog = NoResult

StoreInit ==
  /\ app = initialState
  /\ appLog = NoResult

\* store.dispatch(action)
Dispatch ==
  \E action \in AppActions :
     LET r == appReducer(app, action)
     IN  /\ app' = r.next
         /\ appLog' = [action |-> action, base |-> r.base, before |-> app]
         /\ UNCHANGED storeRest

(***************************************************************************)
(* components/BackgroundSelectionPage.jsx                                  *)
(***************************************************************************)
ContinueError == JsStr("Failed to proceed to photo capture. Please try again.")

\* disabled={!selectedBackground}
TakePhotoEnabled == selectedBackgroundLocal # Null

\* the thumbnails rendered with the class 'selected'
SelectedThumbnails ==
  {i \in 1..Len(BACKGROUND_OPTIONS) :
     /\ selectedBackgroundLocal # Null
     /\ selectedBackgroundLocal.id = BACKGROUND_OPTIONS[i].id}

\* mutant: the catch block navigates all the same
handleContinue_NavigatesAnyway(st, outcome) ==
  IF st.selectedBackground = Null THEN st
  ELSE IF outcome = "dispatch throws"
       THEN [st EXCEPT !.error = ContinueError, !.path = "/photo"]
  ELSE LET r == appReducer(st.app, [type |-> "setSelectedBackground",
                                     payload |-> st.selectedBackground])
       IN  IF outcome = "navigate throws"
           THEN [st EXCEPT !.app = r.next, !.error = ContinueError,
                           !.path = "/photo"]
           ELSE [st EXCEPT !.app = r.next, !.path = "/photo"]

\* handleContinue over st = [selectedBackground, error, app, path]; outcome
\* tells whether dispatch or navigate throws
handleContinue(st, outcome) ==
  IF st.selectedBackground = Null THEN st
  ELSE IF outcome = "dispatch throws"
       THEN [st EXCEPT !.error = ContinueError]
  ELSE LET r == appReducer(st.app, [type |-> "setSelectedBackground",
                                     payload |-> st.selectedBackground])
       IN  IF outcome = "navigate throws"
           THEN [st EXCEPT !.app = r.next, !.error = ContinueError]
           ELSE [st EXCEPT !.app = r.next, !.path = "/photo"]

SelIdle ==
  /\ selectedBackgroundLocal = NoResult
  /\ selectionError = NoResult
  /\ path = "none"
  /\ lastClicked = 0
  /\ selEvent = NoResult

SelInit ==
  /\ selectedBackgroundLocal = Null
  /\ selectionError = Null
  /\ path = "/"
  /\ lastClicked = 0
  /\ selEvent = [op |-> "mount"]

\* a click on a thumbnail
handleBackgroundSelect ==
  \E i \in 1..Len(BACKGROUND_OPTIONS) :
     /\ path = "/"
     /\ selectedBackgroundLocal' = BACKGROUND_OPTIONS[i]
     /\ lastClicked' = i
     /\ selEvent' = [op |-> "select"]
     /\ UNCHANGED <<selectionError, path, storeVars, selRest>>

\* a click on the enabled Take Photo button
ClickTakePhoto ==
  \E outcome \in {"ok", "dispatch throws", "navigate throws"} :
     /\ path = "/"
     /\ TakePhotoEnabled
     /\ LET st == handleContinue([selectedBackground |-> selectedBackgroundLocal,
                                  error |-> selectionError, app |-> app,
                                  path |-> path], outcome)
        IN  /\ app' = st.app
            /\ selectionError' = st.error
            /\ path' = st.path
     /\ appLog' = IF outcome = "dispatch throws" THEN appLog
                  ELSE [action |-> [type |-> "setSelectedBackground",
                                    payload |-> selectedBackgroundLocal],
                        base |-> app, before |-> app]
     /\ selEvent' = [op |-> "continue", outcome |-> outcome]
     /\ UNCHANGED <<selectedBackgroundLocal, lastClicked, selRest>>

\* a click on Try Again in the error message
TryAgain ==
  /\ path = "/"
  /\ selectionError # Null
  /\ selectionError' = Null
  /\ selEvent' = [op |-> "try again"]
  /\ UNCHANGED <<selectedBackgroundLocal, path, lastClicked, storeVars, selRest>>

\* PhotoPage's Change button: navigate('/') mounts the selection page anew
BackToSelection ==
  /\ path = "/photo"
  /\ path' = "/"
  /\ selectedBackgroundLocal' = Null
  /\ selectionError' = Null
  /\ lastClicked' = 0
  /\ selEvent' = [op |-> "mount"]
  /\ UNCHANGED <<storeVars, selRest>>

(***************************************************************************)
(* components/ResultPage.jsx: the upload effect and the render branches.   *)
(***************************************************************************)
\* Date.now() at the mount, as the template literal writes it
DateNow == {"1700000000000", "1700000000001"}

\* `combined-image-${Date.now()}.jpeg`
FileName(t) == "combined-image-" \o t \o ".jpeg"

publicURL(fileName) ==
  "https://crrwcvoimgjghepgrens.supabase.co/storage/v1/object/public/images/"
    \o fileName

CombinedImages == {Null, JsStr("data:image/jpeg;base64,/9j/4AAQSkZJRgABAQEAYABgAAD/test")}

\* mutant: the URL is kept although the upload failed
uploadImage_UrlOnFailure(st, fileName, outcome) ==
  IF outcome = "stored"
  THEN [st EXCEPT !.imageUrl = JsStr(publicURL(fileName)),
                  !.uploadStatus = "Upload successful!"]
  ELSE [st EXCEPT !.imageUrl = JsStr(publicURL(fileName)),
                  !.uploadStatus = "Error uploading to Supabase"]

\* the rest of uploadImage once the upload has answered (lines 45-59);
\* st = [imageUrl, uploadStatus]
uploadImage(st, fileName, outcome) ==
  IF outcome = "stored"
  THEN [st EXCEPT !.imageUrl = JsStr(publicURL(fileName)),
                  !.uploadStatus = "Upload successful!"]
  ELSE [st EXCEPT !.uploadStatus = "Error uploading to Supabase"]

\* the branch of the render that is returned (lines 67-265)
ResultView ==
  IF isLoading = TRUE /\ ~NoSource(combinedImage) THEN "loading"
  ELSE IF error # Null THEN "error"
  ELSE IF ~NoSource(combinedImage) THEN "result"
  ELSE "no image"

QRShown == ResultView = "result" /\ imageUrl # Null

ImageDisplayed == ResultView = "result"

\* the texts on the page
ResultTexts ==
  CASE ResultView = "loading" -> {"Preparing your image..."}
    [] ResultView = "error" -> {"Failed to load image dimensions", "Retry", "Home"}
    [] ResultView = "result" ->
         {"Home"} \cup (IF QRShown THEN {"Scan to share"} ELSE {})
    [] OTHER -> {"No image found to display.", "Home"}

ResIdle ==
  /\ combinedImage = NoResult
  /\ uploadStatus = NoResult
  /\ imageUrl = NoResult
  /\ uploads = <<>>

\* the first render of ResultPage followed by the effects of the hook and of
\* the page (lines 26-64)
ResInit ==
  /\ combinedImage \in CombinedImages
  /\ imageSrc = combinedImage
  /\ LET st == loadImageDimensions(imageSrc,
                  [dimensions |-> Null, isLoading |-> TRUE, error |-> Null,
                   images |-> <<>>, cleanup |-> 0])
     IN  /\ dimensions = st.dimensions
         /\ isLoading = st.isLoading
         /\ error = st.error
         /\ images = st.images
         /\ effectImage = st.cleanup
  /\ hookMounted = TRUE
  /\ imgEvent = [op |-> "mount", img |-> effectImage]
  /\ imageUrl = Null
  /\ IF NoSource(combinedImage)
     THEN /\ uploadStatus = "No image found to upload."
          /\ uploads = <<>>
     ELSE /\ uploadStatus = "Uploading..."
          /\ \E t \in DateNow :
               uploads = <<[fileName |-> FileName(t), state |-> "pending"]>>

\* the upload answers: stored, an error in the answer, or a thrown error
UploadSettles ==
  \E u \in 1..Len(uploads), outcome \in {"stored", "error", "throws"} :
     /\ uploads[u].state = "pending"
     /\ uploads' = [uploads EXCEPT ![u].state = outcome]
     /\ LET st == IF hookMounted
                  THEN uploadImage([imageUrl |-> imageUrl,
                                    uploadStatus |-> uploadStatus],
                                   uploads[u].fileName, outcome)
                  ELSE [imageUrl |-> imageUrl, uploadStatus |-> uploadStatus]
        IN  /\ imageUrl' = st.imageUrl
            /\ uploadStatus' = st.uploadStatus
     /\ UNCHANGED <<combinedImage, resRest>>

\* a click on Retry, which the error branch offers
ClickRetry ==
  /\ ResultView = "error"
  /\ Retry

(***************************************************************************)
(* Specifications.                                                         *)
(***************************************************************************)
InitFit == FitInit /\ ClsIdle /\ DevIdle /\ PhotoIdle /\ CvtIdle /\ GeoIdle
  /\ ImgIdle /\ StoreIdle /\ SelIdle /\ ResIdle

NextFit == ComputeFit

SpecFit == InitFit /\ [][NextFit]_vars

InitClassify == ClsInit /\ FitIdle /\ DevIdle /\ PhotoIdle /\ CvtIdle /\ GeoIdle
  /\ ImgIdle /\ StoreIdle /\ SelIdle /\ ResIdle

NextClassify == Classify

SpecClassify == InitClassify /\ [][NextClassify]_vars

InitDevice == DevInit /\ FitIdle /\ ClsIdle /\ PhotoIdle /\ CvtIdle /\ GeoIdle
  /\ ImgIdle /\ StoreIdle /\ SelIdle /\ ResIdle

NextDevice == Resize \/ OrientationChange \/ Later \/ Unmount \/ DevTick

SpecDevice == InitDevice /\ [][NextDevice]_vars

InitPhoto == PhotoInit /\ FitIdle /\ ClsIdle /\ DevIdle /\ CvtIdle /\ GeoIdle
  /\ ImgIdle /\ StoreIdle /\ SelIdle /\ ResIdle

NextPhoto ==
  \/ handleStartCapture
  \/ FetchSettles
  \/ BackgroundLoad
  \/ BackgroundError
  \/ ForegroundLoad
  \/ ForegroundError
  \/ Timeout
  \/ handleChangeBackground
  \/ Tick

SpecPhoto == InitPhoto /\ [][NextPhoto]_vars

\* the event loop runs the callback of a timer that is due, the clock does
\* not stop while a timer is armed, and the request to the background-removal
\* service settles; nothing makes an image fire load or error
FairPhoto == WF_vars(Tick) /\ WF_vars(Timeout) /\ WF_vars(FetchSettles)

SpecPhotoLive == InitPhoto /\ [][NextPhoto]_vars /\ FairPhoto

InitConvert == CvtInit /\ FitIdle /\ ClsIdle /\ DevIdle /\ PhotoIdle /\ GeoIdle
  /\ ImgIdle /\ StoreIdle /\ SelIdle /\ ResIdle

NextConvert == Convert

SpecConvert == InitConvert /\ [][NextConvert]_vars

InitGeometry ==
  /\ GeoInit /\ FitIdle /\ ClsIdle /\ DevIdle /\ PhotoIdle /\ CvtIdle
  /\ ImgIdle /\ StoreIdle /\ SelIdle /\ ResIdle

NextGeometry == SizeCanvas \/ PlaceForeground

SpecGeometry == InitGeometry /\ [][NextGeometry]_vars

InitImage ==
  /\ ImgInit /\ FitIdle /\ ClsIdle /\ DevIdle /\ PhotoIdle /\ CvtIdle
  /\ GeoIdle /\ StoreIdle /\ SelIdle /\ ResIdle

NextImage ==
  \/ SetSource
  \/ Retry
  \/ ImageLoad
  \/ ImageError
  \/ UnmountHook

SpecImage == InitImage /\ [][NextImage]_vars

OthersIdle ==
  /\ FitIdle /\ ClsIdle /\ DevIdle /\ PhotoIdle /\ CvtIdle /\ GeoIdle
  /\ ImgIdle /\ ResIdle

InitSlice == StoreInit /\ SelIdle /\ OthersIdle

NextSlice == Dispatch

SpecSlice == InitSlice /\ [][NextSlice]_vars

InitSelect == StoreInit /\ SelInit /\ OthersIdle

NextSelect ==
  \/ handleBackgroundSelect
  \/ ClickTakePhoto
  \/ TryAgain
  \/ BackToSelection

SpecSelect == InitSelect /\ [][NextSelect]_vars

InitResult ==
  /\ ResInit /\ FitIdle /\ ClsIdle /\ DevIdle /\ PhotoIdle /\ CvtIdle
  /\ GeoIdle /\ StoreIdle /\ SelIdle

NextResult ==
  \/ UploadSettles
  \/ ImageLoad
  \/ ImageError
  \/ ClickRetry
  \/ UnmountHook

SpecResult == InitResult /\ [][NextResult]_vars

(***************************************************************************)
(* Properties of the fit (SpecFit).                                        *)
(***************************************************************************)
FitDone == fitCalls >= 1 /\ fitIn.imageDimensions # Null

FitBounds == EffectiveBounds(fitIn.constraints, fitIn.viewport, fitIn.deviceType)

FitRatio == fitIn.imageDimensions.aspectRatio

\* the returned strings read back as pixel counts
OutWidth == Num(parseInt(fitOut.displayWidth.v))

OutHeight == Num(parseInt(fitOut.displayHeight.v))

\* the size before rounding, recovered from the returned scale
ExactWidth == RMul(fitOut.scale, Num(fitIn.imageDimensions.naturalWidth))

ExactHeight == RDiv(ExactWidth, FitRatio)

Half == Rat(1, 2)

RAbs(x) == [n |-> Abs(x.n), d |-> x.d]

\* some aspect-preserving size meets minWidth <= w <= maxWidth, w / r <= maxHeight
Feasible ==
  /\ RLe(FitBounds.minWidthPx, FitBounds.maxWidthPx)
  /\ RLe(RDiv(FitBounds.minWidthPx, FitRatio), FitBounds.maxHeightPx)

\* C5 as stated: whenever a size within the three adjusted bounds exists, the
\* returned (rounded) size satisfies all three bounds.
C5_Original ==
  (FitDone /\ Feasible) =>
     /\ RLe(FitBounds.minWidthPx, OutWidth)
     /\ RLe(OutWidth, FitBounds.maxWidthPx)
     /\ RLe(OutHeight, FitBounds.maxHeightPx)

\* C5 amended: whenever a size within the three adjusted bounds exists, the
\* size chosen before rounding satisfies all three bounds, and the returned
\* width and height are that size rounded, so each is within half a pixel of
\* its bounds.
C5_FitWithinBounds ==
  (FitDone /\ Feasible) =>
     /\ RLe(FitBounds.minWidthPx, ExactWidth)
     /\ RLe(ExactWidth, FitBounds.maxWidthPx)
     /\ RLe(ExactHeight, FitBounds.maxHeightPx)
     /\ RLe(RAbs(RSub(OutWidth, ExactWidth)), Half)
     /\ RLe(RAbs(RSub(OutHeight, ExactHeight)), Half)

\* a feasible fit that is cut by the height bound and whose rounded width
\* lands above the exact one
C5_Witness ==
  /\ FitDone
  /\ Feasible
  /\ ExactHeight = FitBounds.maxHeightPx
  /\ RLt(ExactWidth, Num(fitIn.imageDimensions.naturalWidth))
  /\ RGt(OutWidth, ExactWidth)

\* C6 as stated: the rounded height differs from roundedWidth / r by at most
\* one pixel.
C6_Original ==
  FitDone =>
     RLe(RAbs(RSub(OutHeight, RDiv(OutWidth, FitRatio))), Num(1))

\* C6 amended: the rounded width and height are each within half a pixel of an
\* exact pair w, w / r, so the rounded height differs from roundedWidth / r by
\* at most 1/2 + 1/(2r) pixels (one pixel or less only when r >= 1).
C6_AspectWithinRounding ==
  FitDone =>
     /\ RLe(RAbs(RSub(OutWidth, ExactWidth)), Half)
     /\ RLe(RAbs(RSub(OutHeight, RDiv(ExactWidth, FitRatio))), Half)
     /\ RLe(RAbs(RSub(OutHeight, RDiv(OutWidth, FitRatio))),
            RAdd(Half, RDiv(Half, FitRatio)))

\* an extreme vertical image whose rounded width is off the exact one
C6_Witness ==
  /\ FitDone
  /\ RLe(FitRatio, Rat(1, 5))
  /\ OutWidth # ExactWidth

\* C7: the returned size never exceeds constraints.maxWidth / maxHeight in
\* pixels, and an image wider than maxWidth whose height fits is displayed at
\* exactly maxWidth.
C7_WithinConstraintRecord ==
  FitDone =>
     LET maxW == convertToPixels(fitIn.constraints.maxWidth, fitIn.viewport)
         maxH == convertToPixels(fitIn.constraints.maxHeight, fitIn.viewport)
     IN  /\ RLe(OutWidth, maxW)
         /\ RLe(OutHeight, maxH)
         /\ (/\ RGt(Num(fitIn.imageDimensions.naturalWidth), maxW)
             /\ RLe(RDiv(maxW, FitRatio), maxH))
            => OutWidth = Num(MathRound(maxW))

\* C8: an image narrower than minWidth is displayed at minWidth wide and
\* round(minWidth / aspectRatio) high.
C8_MinWidthEnforced ==
  (FitDone /\ RLt(Num(fitIn.imageDimensions.naturalWidth), FitBounds.minWidthPx)) =>
     /\ OutWidth = FitBounds.minWidthPx
     /\ OutHeight = Num(MathRound(RDiv(FitBounds.minWidthPx, FitRatio)))

C4_DebouncedUpdate ==
  (devMounted /\ lastEvent # NoResult) =>
     /\ devNow < lastEvent.at + debounceMs => updates = <<>>
     /\ devNow > lastEvent.at + debounceMs => Len(updates) = 1
     /\ Len(updates) <= 1
     /\ Len(updates) = 1 =>
          /\ updates[1] = lastEvent.at + debounceMs
          /\ viewport = lastEvent.win
          /\ deviceType = getDeviceType(lastEvent.win.width, lastEvent.win.height)

\* a burst of three events one tick apart, the last one changing the device
\* class, and the single update debounceMs after the last
C4_Witness ==
  /\ devMounted
  /\ lastEvent # NoResult
  /\ lastEvent.burst = 3
  /\ lastEvent.at = 2 * DevTickMs
  /\ updates = <<2 * DevTickMs + debounceMs>>
  /\ devNow > 2 * DevTickMs + debounceMs
  /\ viewport = [width |-> 1000, height |-> 800]
  /\ deviceType = "tablet"

(***************************************************************************)
(* Properties of the compositor and the capture flow (SpecPhoto).          *)
(***************************************************************************)
TimerFired(call) == \E i \in 1..Len(call.events) : call.events[i].e = "timeout"

\* the events on which the code cancels the timer
Cancels(e) == e \in {"foreground.onload", "foreground.onerror", "background.onerror"}

\* C1: a call rejects with the timeout error iff its timer callback ran; the
\* callback runs exactly 15 s after the call started and only if neither the
\* foreground load nor an error of either image came first; once one of these
\* has happened the timer is cancelled, and a call whose images stay silent is
\* rejected as soon as the 15 s have passed.
C1_TimeoutIff ==
  \A c \in 1..Len(calls) :
     LET call == calls[c]
         deadline == call.startedAt + CompositeTimeoutMs
     IN  /\ (call.status = "rejected" /\ call.error = "Image loading timeout")
              <=> TimerFired(call)
         /\ \A i \in 1..Len(call.events) :
               call.events[i].e = "timeout" =>
                  /\ call.events[i].at = deadline
                  /\ \A j \in 1..(i - 1) : ~Cancels(call.events[j].e)
         /\ (\E i \in 1..Len(call.events) : Cancels(call.events[i].e))
              => call.timer = NoTimer
         /\ now > deadline =>
              \/ TimerFired(call)
              \/ \E i \in 1..Len(call.events) :
                    Cancels(call.events[i].e) /\ call.events[i].at <= deadline

\* the background loads, the foreground stays silent, and the call is rejected
\* by the timer at the 15 s bound
C1_Witness ==
  \E c \in 1..Len(calls) :
     /\ Len(calls[c].events) = 2
     /\ calls[c].events[1].e = "background.onload"
     /\ calls[c].events[2] = [e |-> "timeout", at |-> calls[c].startedAt + 15000]
     /\ calls[c].status = "rejected"
     /\ calls[c].error = "Image loading timeout"
     /\ calls[c].foreground = "loading"
     /\ now > calls[c].startedAt + 15000

\* the handler of an error event of call c has just run
ErrorEvent(c, e) ==
  /\ Len(calls'[c].events) = Len(calls[c].events) + 1
  /\ calls'[c].events[Len(calls'[c].events)].e = e

\* C2: whenever the background or the foreground fires its error event, the
\* call is rejected with the error naming that layer, and the page then shows
\* the combining error, has processing = false and has not navigated to the
\* result page.
C2_ErrorEventRejects ==
  [][\A c \in 1..Len(calls) :
        \A layer \in {"background", "foreground"} :
           ErrorEvent(c, layer \o ".onerror") =>
              /\ calls'[c].status = "rejected"
              /\ calls'[c].error = "Failed to load " \o layer \o " image"
              /\ "Error combining images. Please try again." \in ShownTexts'
              /\ processing' = FALSE
              /\ page' # "result"]_vars

\* C3: the canvas is resized or drawn on only by a call that has not settled.
C3_CanvasOwnedByInFlightCall ==
  [][canvas' # canvas => calls[canvas'.writer].status = "pending"]_vars

(***************************************************************************)
(* Properties of convertToPixels (SpecConvert).                            *)
(***************************************************************************)
ConvertDone == cvtOut # NoResult

\* n percent of a viewport side
PercentOf(n, side) == RMul(RDiv(n, Num(100)), Num(side))

\* C11: convertToPixels returns a number unchanged, n for "<n>px",
\* (n / 100) * viewport.width for "<n>vw" and (n / 100) * viewport.height for
\* "<n>vh", for every n and every viewport.
C11_UnitConversion ==
  ConvertDone =>
    /\ cvtIn.kind = "number" => cvtOut = cvtIn.lit.value
    /\ cvtIn.kind = "px" => cvtOut = cvtIn.lit.value
    /\ cvtIn.kind = "vw" =>
          cvtOut = PercentOf(cvtIn.lit.value, cvtIn.viewport.width)
    /\ cvtIn.kind = "vh" =>
          cvtOut = PercentOf(cvtIn.lit.value, cvtIn.viewport.height)

C11_Witness ==
  /\ ConvertDone
  /\ cvtIn.kind = "vw"
  /\ cvtIn.lit.text = <<"-", "1", "2", ".", "2", "5">>
  /\ cvtIn.viewport = [width |-> 375, height |-> 667]
  /\ cvtOut = Rat(-3675, 80)

\* C12: for every invalid length value (a string that does not end in px, vw
\* or vh, a string whose numeric part cannot be parsed, the empty string,
\* null) convertToPixels returns 0 and raises no error.
C12_InvalidIsZero ==
  ConvertDone /\ cvtIn.kind = "invalid" => cvtOut = Num(0)

(***************************************************************************)
(* Properties of the canvas geometry (SpecGeometry).                       *)
(***************************************************************************)
CanvasSized == geoOut # NoResult

\* C13: for every background size the canvas is at least 800 px high and at
\* least 600 px wide.
C13_CanvasFloor ==
  CanvasSized => geoOut.canvas.height >= 800 /\ geoOut.canvas.width >= 600

\* a landscape background so wide that the 800 px floor applies
C13_Witness ==
  /\ CanvasSized
  /\ geoIn.background = [width |-> 1920, height |-> 1080]
  /\ geoOut.canvas = [width |-> 1422, height |-> 800]

Placed == CanvasSized /\ geoOut.placement # NoResult

\* C14: the foreground is drawn entirely inside the canvas.  If its aspect
\* ratio exceeds the canvas's, drawWidth = canvasWidth, offsetX = 0 and
\* offsetY = (canvasHeight - drawHeight) / 2; otherwise drawHeight =
\* canvasHeight, offsetY = 0 and offsetX = (canvasWidth - drawWidth) / 2.
\* Offsets are >= 0, the drawn size does not exceed the canvas, and
\* drawWidth / drawHeight is the foreground's aspect ratio.
C14_ForegroundContained ==
  Placed =>
    LET p  == geoOut.placement
        cw == Num(geoOut.canvas.width)
        ch == Num(geoOut.canvas.height)
        fa == Rat(geoIn.foreground.width, geoIn.foreground.height)
    IN  /\ IF RGt(fa, RDiv(cw, ch))
           THEN /\ p.drawWidth = cw
                /\ p.offsetX = Num(0)
                /\ p.offsetY = RDiv(RSub(ch, p.drawHeight), Num(2))
           ELSE /\ p.drawHeight = ch
                /\ p.offsetY = Num(0)
                /\ p.offsetX = RDiv(RSub(cw, p.drawWidth), Num(2))
        /\ RGe(p.offsetX, Num(0)) /\ RGe(p.offsetY, Num(0))
        /\ RLe(p.drawWidth, cw) /\ RLe(p.drawHeight, ch)
        /\ RLe(RAdd(p.offsetX, p.drawWidth), cw)
        /\ RLe(RAdd(p.offsetY, p.drawHeight), ch)
        /\ RDiv(p.drawWidth, p.drawHeight) = fa

\* a landscape foreground letterboxed on a portrait canvas
C14_Witness ==
  /\ Placed
  /\ geoIn.foreground = [width |-> 1280, height |-> 720]
  /\ geoOut.canvas = [width |-> 1080, height |-> 1920]
  /\ geoOut.placement = [drawWidth |-> Num(1080), drawHeight |-> Rat(1215, 2),
                          offsetX |-> Num(0), offsetY |-> Rat(2625, 4)]

(***************************************************************************)
(* Properties of useImageDimensions (SpecImage).                           *)
(***************************************************************************)
\* the loading state: isLoading = true, dimensions = null, error = null
LoadingState == isLoading = TRUE /\ dimensions = Null /\ error = Null

\* the latest step of the mounted hook was op
JustDid(op) == hookMounted /\ imgEvent.op = op

C15_Start ==
  (JustDid("mount") \/ JustDid("source")) /\ ~NoSource(imageSrc) =>
     LoadingState

C15_Load ==
  JustDid("load") =>
    LET size == NaturalSize(images[imgEvent.img].src)
    IN  /\ isLoading = FALSE
        /\ error = Null
        /\ dimensions # Null
        /\ dimensions.width = size.naturalWidth
        /\ dimensions.height = size.naturalHeight
        /\ dimensions.naturalWidth = size.naturalWidth
        /\ dimensions.naturalHeight = size.naturalHeight
        /\ dimensions.aspectRatio = Rat(dimensions.width, dimensions.height)

C15_Error ==
  JustDid("error") =>
    /\ isLoading = FALSE
    /\ error = JsStr("Failed to load image dimensions")
    /\ dimensions = Null

C15_NoSource ==
  hookMounted /\ NoSource(imageSrc) =>
    /\ isLoading = FALSE
    /\ error = JsStr("No image source provided")
    /\ dimensions = Null

C15_Retry ==
  JustDid("retry") /\ ~NoSource(imageSrc) =>
    /\ LoadingState
    /\ imgEvent.img = Len(images)
    /\ images[imgEvent.img] = NewImage(imageSrc)

\* C15: useImageDimensions follows this state machine: with a non-empty
\* source it starts with isLoading = true, dimensions = null, error = null;
\* the load event leads to isLoading = false, error = null and dimensions
\* equal to the natural width and height with aspectRatio = width / height;
\* the error event leads to isLoading = false, error = 'Failed to load image
\* dimensions', dimensions = null; with an empty or null source it reports
\* isLoading = false, error = 'No image source provided', dimensions = null;
\* retry starts a fresh load from the loading state.
C15_StateMachine ==
  /\ C15_Start
  /\ C15_Load
  /\ C15_Error
  /\ C15_NoSource
  /\ C15_Retry

(***************************************************************************)
(* Properties of the store (SpecSlice).                                    *)
(***************************************************************************)
Dispatched == appLog # NoResult

\* C16: each appSlice action changes only its own field: setSelectedBackground
\* sets selectedBackground to the payload (null, undefined and partial records
\* included), clearSelectedBackground sets it to null, and setName, setPhoto,
\* setProcessedPhoto, setPresetImage and setFinalImageUrl set their field to
\* the payload; every other field keeps its value and the input state is not
\* mutated.
C16_OwnFieldOnly ==
  Dispatched =>
    LET own == OwnField[appLog.action.type]
    IN  /\ app[own] = IF appLog.action.type = "clearSelectedBackground"
                      THEN Null ELSE appLog.action.payload
        /\ \A f \in DOMAIN initialState \ {own} : app[f] = appLog.before[f]
        /\ appLog.base = appLog.before

\* a background is cleared while name, photo and final image are set
C16_Witness ==
  /\ Dispatched
  /\ appLog.action.type = "clearSelectedBackground"
  /\ appLog.before.selectedBackground = BACKGROUND_OPTIONS[3]
  /\ app = [name |-> JsStr("John Doe"),
            photo |-> JsStr("data:image/jpeg;base64,mockPhoto"),
            processedPhoto |-> Null, presetImage |-> Null,
            finalImageUrl |-> JsStr("https://example.com/final-image.jpg"),
            selectedBackground |-> Null]

(***************************************************************************)
(* Properties of the background selection page (SpecSelect).               *)
(***************************************************************************)
\* Take Photo has just been clicked, with this outcome
Continued(outcome) == selEvent = [op |-> "continue", outcome |-> outcome]

\* the error message is on screen
ContinueErrorShown == path = "/" /\ selectionError = ContinueError

C17_WitnessThrows ==
  /\ Continued("dispatch throws")
  /\ ContinueErrorShown
  /\ app.selectedBackground = Null

\* C18: after any sequence of clicks on thumbnails, the thumbnail clicked
\* last carries the 'selected' highlight and no other thumbnail does.
C18_OnlyLastClickedSelected ==
  path = "/" /\ lastClicked # 0 => SelectedThumbnails = {lastClicked}

(***************************************************************************)
(* Properties of the capture flow (SpecPhoto).                             *)
(***************************************************************************)
RemovalError == "Error removing background. Please try again."

\* the background-removal request has just failed
RemovalFailed == fetching /\ ~fetching' /\ calls' = calls

\* C19: when the background-removal request fails (network error or non-OK
\* response), the page shows 'Error removing background. Please try again.',
\* does not navigate to the result page, and the Capture button is enabled
\* again.
C19_RemovalErrorShown ==
  [][RemovalFailed =>
       /\ RemovalError \in ShownTexts'
       /\ page' = "photo"
       /\ ~CaptureDisabled']_vars

\* the compositing calls that have not settled
PendingCalls == {c \in 1..Len(calls) : calls[c].status = "pending"}

\* a capture is being processed: its request or its compositing is under way
FlowInProgress == fetching \/ PendingCalls # {}

\* C20: from the click on Capture until the flow ends in an error or in the
\* navigation to the result page, the Capture button and the Change button
\* are disabled: no second capture or compositing call starts and the page
\* is not left for the background selection meanwhile.
C20_ButtonsDisabledInFlow ==
  /\ FlowInProgress =>
       /\ page = "photo"
       /\ CaptureDisabled
       /\ ChangeDisabled
  /\ Cardinality(PendingCalls) + (IF fetching THEN 1 ELSE 0) <= 1

\* the second capture of a session is being composited while a background
\* is selected, so both buttons are on the page
C20_Witness ==
  /\ selectedBackground # Null
  /\ Len(calls) = 2
  /\ calls[1].status = "rejected"
  /\ PendingCalls = {2}
  /\ calls[2].background = "loaded"
  /\ CaptureDisabled /\ ChangeDisabled

(***************************************************************************)
(* Properties of the result page (SpecResult).                             *)
(***************************************************************************)
\* C21: when the result page is opened without a combined image, it shows
\* 'No image found to display.' and no loading spinner, whatever the
\* image-dimension hook reports for the missing source.
C21_NoImageMessage ==
  hookMounted /\ NoSource(combinedImage) =>
    /\ "No image found to display." \in ResultTexts
    /\ "Preparing your image..." \notin ResultTexts

\* the upload has just failed
UploadFailed ==
  \E u \in 1..Len(uploads) :
     uploads[u].state = "pending" /\ uploads'[u].state \in {"error", "throws"}

\* C22: the QR code is shown only after the upload of the combined image
\* has succeeded, and its value is the public URL of the uploaded file; when
\* the upload fails the combined image is still displayed, no QR code ever
\* appears, and the upload is not retried.
C22_QROnlyAfterUpload ==
  /\ [](QRShown =>
         /\ Len(uploads) = 1
         /\ uploads[1].state = "stored"
         /\ imageUrl = JsStr(publicURL(uploads[1].fileName)))
  /\ []((\E u \in 1..Len(uploads) : uploads[u].state \in {"error", "throws"})
           => ~QRShown /\ imageUrl = Null)
  /\ [](Len(uploads) <= 1)
  /\ [][UploadFailed =>
          /\ ImageDisplayed' = ImageDisplayed
          /\ Len(uploads') = Len(uploads)]_vars

\* the upload failed after the dimensions had loaded: the image is on the
\* page without a QR code
C22_Witness ==
  /\ hookMounted
  /\ Len(uploads) = 1
  /\ uploads[1].state = "error"
  /\ uploadStatus = "Error uploading to Supabase"
  /\ ImageDisplayed
  /\ ~QRShown

(***************************************************************************)
(* Further properties of the fit (SpecFit).                                *)
(***************************************************************************)
\* the first-matching-rule reference: the unrounded size and the rule taken
FirstMatchingRule ==
  LET maxW == FitBounds.maxWidthPx
      maxH == FitBounds.maxHeightPx
      minW == FitBounds.minWidthPx
      r    == FitRatio
      wa   == RMin(maxW, Num(fitIn.imageDimensions.naturalWidth))
      hb   == RMin(maxH, Num(fitIn.imageDimensions.naturalHeight))
  IN  IF RLe(RDiv(wa, r), maxH) /\ RGe(wa, minW)
      THEN [w |-> wa, h |-> RDiv(wa, r), rule |-> "a"]
      ELSE IF RGe(RMul(hb, r), minW)
      THEN [w |-> RMul(hb, r), h |-> hb, rule |-> "b"]
      ELSE IF RGt(RDiv(minW, r), maxH)
      THEN [w |-> RMul(maxH, r), h |-> maxH, rule |-> "c, replaced"]
      ELSE [w |-> minW, h |-> RDiv(minW, r), rule |-> "c"]

C24_EffectiveBounds ==
  FitDone =>
     LET maxW == convertToPixels(fitIn.constraints.maxWidth, fitIn.viewport)
         maxH == convertToPixels(fitIn.constraints.maxHeight, fitIn.viewport)
         minW == convertToPixels(fitIn.constraints.minWidth, fitIn.viewport)
     IN  IF fitIn.deviceType # "mobile"
         THEN /\ FitBounds.maxWidthPx = RMax(minW, RSub(maxW, Num(360)))
              /\ FitBounds.maxHeightPx = RMin(maxH, Num(fitIn.viewport.height - 80))
         ELSE FitBounds.maxHeightPx =
                RMax(Num(200), RMin(maxH, Num(fitIn.viewport.height - 290)))


(***************************************************************************)
(* Further properties of the compositing (SpecPhoto).                      *)
(***************************************************************************)
EventNames(call) == [k \in 1..Len(call.events) |-> call.events[k].e]

\* e1 is logged in the call before e2
Precedes(call, e1, e2) ==
  \E j, k \in 1..Len(call.events) :
     j < k /\ call.events[j].e = e1 /\ call.events[k].e = e2

\* C25: in every call the foreground is requested only once the background
\* has loaded and has been drawn, it is never requested when the background
\* errors, and a call resolves only with its foreground drawn after its
\* background.
C25_ForegroundAfterBackground ==
  /\ [](\A c \in 1..Len(calls) :
          /\ calls[c].foreground # "unset" =>
                /\ calls[c].background = "loaded"
                /\ \E k \in 1..Len(calls[c].events) :
                      calls[c].events[k].e = "background.onload"
          /\ calls[c].background \in {"error", "threw", "loading"} =>
                calls[c].foreground = "unset"
          /\ calls[c].status = "resolved" =>
                Precedes(calls[c], "background.onload", "foreground.onload"))
  /\ [][\A c \in 1..Len(calls) :
          /\ (calls[c].foreground = "unset" /\ calls'[c].foreground # "unset") =>
                canvas'.content = <<[layer |-> "background", call |-> c]>>
          /\ (calls[c].status = "pending" /\ calls'[c].status = "resolved") =>
                /\ Len(canvas'.content) >= 1
                /\ canvas'.content[Len(canvas'.content)] =
                     [layer |-> "foreground", call |-> c]]_vars

\* a call resolved with exactly its two layers on the canvas
C25_Witness ==
  \E c \in 1..Len(calls) :
     /\ calls[c].status = "resolved"
     /\ EventNames(calls[c]) = <<"background.onload", "foreground.onload">>
     /\ canvas.content = <<[layer |-> "background", call |-> c],
                           [layer |-> "foreground", call |-> c]>>


(***************************************************************************)
(* Further properties of the canvas geometry (SpecGeometry).               *)
(***************************************************************************)
BackgroundRatio == Rat(geoIn.background.width, geoIn.background.height)

\* C26: for every background size and in every branch of the sizing the
\* canvas width / height equals the background's width / height.
C26_CanvasRatioExact ==
  CanvasSized =>
     geoOut.canvas.width * geoIn.background.height =
        geoOut.canvas.height * geoIn.background.width

\* C26 as the code has it: one side of the canvas is the aspect-matched value
\* of the other with its fraction dropped by the assignment to canvas.width /
\* canvas.height, so the two ratios differ by less than one pixel on one side.
C26_CanvasRatioTruncated ==
  CanvasSized =>
     \/ geoOut.canvas.width =
          ToUnsignedLong(RMul(Num(geoOut.canvas.height), BackgroundRatio))
     \/ geoOut.canvas.height =
          ToUnsignedLong(RDiv(Num(geoOut.canvas.width), BackgroundRatio))

\* the 800 px floor with a width that lost its fraction
C26_Witness ==
  /\ CanvasSized
  /\ geoOut.canvas.height = 800
  /\ RLt(Num(geoOut.canvas.width), RMul(Num(800), BackgroundRatio))
  /\ geoOut.canvas.width = ToUnsignedLong(RMul(Num(800), BackgroundRatio))


(***************************************************************************)
(* Progress of the capture flow (SpecPhotoLive).                           *)
(***************************************************************************)
\* C27: every combineImages call settles, and does so within the 15 s of its
\* timer, whatever the images do and whether or not the drawing and encoding
\* steps of the load callbacks throw.
C27_EveryCallSettles ==
  /\ \A c \in 1..MaxCalls :
        (c \in PendingCalls) ~> (c <= Len(calls) /\ c \notin PendingCalls)
  /\ [](\A c \in 1..Len(calls) :
          calls[c].status = "pending" =>
             now <= calls[c].startedAt + CompositeTimeoutMs)

\* C28: every click on Capture ends with the result page or with processing
\* back to false.
C28_CaptureEnds ==
  processing ~> (page = "result" \/ ~processing)


(***************************************************************************)
(* Further properties of the debounced resize handling (SpecDevice).       *)
(***************************************************************************)
\* C29: once the hook is unmounted no update of viewport or deviceType is
\* performed, also when an event arrived less than debounceMs before.
C29_NoUpdateAfterUnmount ==
  [][~devMounted => updates' = updates]_vars


(***************************************************************************)
(* Further properties of useImageDimensions (SpecImage).                   *)
(***************************************************************************)
\* the step is the load or error event of an image of a previous source
StaleImageEvent ==
  /\ images' # images
  /\ imgEvent'.op \in {"load", "error"}
  /\ images[imgEvent'.img].src # imageSrc

\* C30: error and dimensions are never both non-null, and the load or error
\* event of an image that belongs to a previous source never changes the
\* state of the hook.
C30_ErrorOrDimensions ==
  /\ [](hookMounted => ~(error # Null /\ dimensions # Null))
  /\ [][StaleImageEvent => UNCHANGED <<dimensions, isLoading, error>>]_vars

=============================================================================
